---- MODULE Spec2Model ----
(***************************************************************************)
(* Model of src/jsonapi.py: the two JSON:API document builders             *)
(* error_response and success_response.                                    *)
(*                                                                         *)
(* The builders keep no state of their own, but success_response receives  *)
(* references to objects the caller owns (the attribute records, the       *)
(* metadata mapping).  The state of the model is therefore the caller's    *)
(* objects, the arguments of the call and what the last call did.          *)
(*                                                                         *)
(* Python values are modelled as records of one uniform shape (PyVal), a   *)
(* dict as the sequence of its entries in insertion order.                 *)
(* json.dumps is modelled on strings without characters that need          *)
(* escaping.                                                               *)
(***************************************************************************)
EXTENDS Integers, Sequences, FiniteSets, TLC

VARIABLES
    records,        \* the caller's list of attribute records (dicts)
    metadata,       \* the caller's metadata mapping (a dict)
    resource_type,  \* arguments of success_response
    resource_link,
    id_field,
    errorArgs,      \* arguments of error_response
    pre,            \* the caller's objects as they were when the last call began
    call,           \* the last call: which builder, on which attributes
    result          \* what the last call ended in

vars == <<records, metadata, resource_type, resource_link, id_field,
          errorArgs, pre, call, result>>

----------------------------------------------------------------------------
(* Python values *)

PyNone == [t |-> "none", s |-> "", n |-> 0, kv |-> <<>>, items |-> <<>>]

PyStr(str) == [t |-> "str", s |-> str, n |-> 0, kv |-> <<>>, items |-> <<>>]

PyInt(i) == [t |-> "int", s |-> "", n |-> i, kv |-> <<>>, items |-> <<>>]

PyDict(entries) == [t |-> "dict", s |-> "", n |-> 0, kv |-> entries, items |-> <<>>]

PyList(elems) == [t |-> "list", s |-> "", n |-> 0, kv |-> <<>>, items |-> elems]

Entry(key, val) == [k |-> key, v |-> val]

\* key == name, for a dict key (always a string here) and a Python value
\* used as a key (id_field may be None)
KeyIs(key, name) == name.t = "str" /\ name.s = key

\* name in d
Has(d, name) == \E i \in 1..Len(d.kv) : KeyIs(d.kv[i].k, name)

\* d[name], for name in d
Get(d, name) == d.kv[CHOOSE i \in 1..Len(d.kv) : KeyIs(d.kv[i].k, name)].v

\* d.get(name, default)
GetOr(d, name, default) == IF Has(d, name) THEN Get(d, name) ELSE default

\* the entries of d other than name, in d's order
Without(d, name) == PyDict(SelectSeq(d.kv, LAMBDA e : ~KeyIs(e.k, name)))

\* bool(v) for None and dicts
Truthy(v) == v.t = "dict" /\ Len(v.kv) > 0

Digits == <<"0", "1", "2", "3", "4", "5", "6", "7", "8", "9">>

RECURSIVE NatToStr(_)
NatToStr(i) == IF i < 10 THEN Digits[i + 1]
               ELSE NatToStr(i \div 10) \o Digits[(i % 10) + 1]

\* str(i) for an int
IntToStr(i) == IF i < 0 THEN "-" \o NatToStr(-i) ELSE NatToStr(i)

\* str(v), as the f-string does to the identifier
Format(v) == CASE v.t = "str" -> v.s
               [] v.t = "int" -> IntToStr(v.n)
               [] v.t = "none" -> "None"

RECURSIVE Dumps(_)
RECURSIVE DumpEntries(_, _)
RECURSIVE DumpItems(_, _)
DumpEntries(kv, i) ==
    IF i > Len(kv) THEN ""
    ELSE (IF i > 1 THEN ", " ELSE "")
         \o "\"" \o kv[i].k \o "\": " \o Dumps(kv[i].v)
         \o DumpEntries(kv, i + 1)

DumpItems(items, i) ==
    IF i > Len(items) THEN ""
    ELSE (IF i > 1 THEN ", " ELSE "") \o Dumps(items[i])
         \o DumpItems(items, i + 1)

\* json.dumps(v) with the default separators
Dumps(v) == CASE v.t = "none" -> "null"
              [] v.t = "str" -> "\"" \o v.s \o "\""
              [] v.t = "int" -> IntToStr(v.n)
              [] v.t = "dict" -> "{" \o DumpEntries(v.kv, 1) \o "}"
              [] v.t = "list" -> "[" \o DumpItems(v.items, 1) \o "]"

----------------------------------------------------------------------------
(* Outcomes of a call *)

NoResult == [kind |-> "none", doc |-> PyNone, text |-> "", key |-> PyNone]

\* the call returned json.dumps(doc)
Returned(doc) == [kind |-> "return", doc |-> doc, text |-> Dumps(doc), key |-> PyNone]

\* the call raised KeyError(key)
RaisedKeyError(key) == [kind |-> "KeyError", doc |-> PyNone, text |-> "", key |-> key]

----------------------------------------------------------------------------
(* error_response *)

\* error_response with "if source is not None" for "if source"
error_response_not_none(status_code, title, detail, source) ==
    LET err == <<Entry("status", PyStr(IntToStr(status_code))),
                 Entry("title", PyStr(title)),
                 Entry("detail", PyStr(detail))>>
        err2 == IF source.t # "none" THEN Append(err, Entry("source", source)) ELSE err
    IN  Returned(PyDict(<<Entry("errors", PyList(<<PyDict(err2)>>))>>))

error_response(status_code, title, detail, source) ==
    LET err == <<Entry("status", PyStr(IntToStr(status_code))),
                 Entry("title", PyStr(title)),
                 Entry("detail", PyStr(detail))>>
        err2 == IF Truthy(source) THEN Append(err, Entry("source", source)) ELSE err
    IN  Returned(PyDict(<<Entry("errors", PyList(<<PyDict(err2)>>))>>))

----------------------------------------------------------------------------
(* success_response *)

JsonApi == Entry("jsonapi", PyDict(<<Entry("version", PyStr("1.1"))>>))

\* dict(metadata or {}): the builder's own copy of the metadata
MetadataCopy(md) == IF Truthy(md) THEN PyDict(md.kv) ELSE PyDict(<<>>)

\* the caller's metadata object once the call is over: the builder rebinds
\* its parameter to the copy and only reads the copy
MetadataAfter(md) == md

\* SingleBranch with the identifier appended to the link, as the loop does
SingleBranchLinkWithId(rt, link, idf, attributes) ==
    IF ~Has(attributes, idf)
    THEN [result |-> RaisedKeyError(idf), attributes |-> attributes]
    ELSE LET popped == Get(attributes, idf)
             rest == Without(attributes, idf)
             doc == PyDict(<<
                 JsonApi,
                 Entry("data", PyDict(<<
                     Entry("type", PyStr(rt)),
                     Entry("id", popped),
                     Entry("attributes", rest),
                     Entry("links", PyDict(<<
                         Entry("self", PyStr(link \o "/" \o Format(popped)))>>))>>)),
                 Entry("meta", PyDict(<<>>))>>)
         IN  [result |-> Returned(doc), attributes |-> rest]

\* SingleBranch with the "meta" member filled with a page block
SingleBranchWithPage(rt, link, idf, attributes) ==
    IF ~Has(attributes, idf)
    THEN [result |-> RaisedKeyError(idf), attributes |-> attributes]
    ELSE LET popped == Get(attributes, idf)
             rest == Without(attributes, idf)
             doc == PyDict(<<
                 JsonApi,
                 Entry("data", PyDict(<<
                     Entry("type", PyStr(rt)),
                     Entry("id", popped),
                     Entry("attributes", rest),
                     Entry("links", PyDict(<<Entry("self", PyStr(link))>>))>>)),
                 Entry("meta", PyDict(<<Entry("page", PyDict(<<
                     Entry("total", PyNone),
                     Entry("count", PyInt(1)),
                     Entry("number", PyInt(1)),
                     Entry("size", PyInt(30))>>))>>))>>)
         IN  [result |-> Returned(doc), attributes |-> rest]

\* the branch for a dict: the document, and the caller's dict once the call
\* is over.  attributes.pop(id_field) raises KeyError when the key is
\* missing and removes the entry from the caller's dict otherwise; the same
\* dict object is then put in the document.
SingleBranch(rt, link, idf, attributes) ==
    IF ~Has(attributes, idf)
    THEN [result |-> RaisedKeyError(idf), attributes |-> attributes]
    ELSE LET popped == Get(attributes, idf)
             rest == Without(attributes, idf)
             doc == PyDict(<<
                 JsonApi,
                 Entry("data", PyDict(<<
                     Entry("type", PyStr(rt)),
                     Entry("id", popped),
                     Entry("attributes", rest),
                     Entry("links", PyDict(<<Entry("self", PyStr(link))>>))>>)),
                 Entry("meta", PyDict(<<>>))>>)
         IN  [result |-> Returned(doc), attributes |-> rest]

\* PageMeta reading the page number at "pageNumber"
PageMetaCamelNumber(md, attributes) ==
    PyDict(<<Entry("page", PyDict(<<
        Entry("total", GetOr(md, PyStr("total"), PyNone)),
        Entry("count", GetOr(md, PyStr("page_count"), PyInt(Len(attributes.items)))),
        Entry("number", GetOr(md, PyStr("pageNumber"), PyInt(1))),
        Entry("size", GetOr(md, PyStr("size"), PyInt(30)))>>))>>)

\* the "meta" member of the document for a list
PageMeta(md, attributes) ==
    PyDict(<<Entry("page", PyDict(<<
        Entry("total", GetOr(md, PyStr("total"), PyNone)),
        Entry("count", GetOr(md, PyStr("page_count"), PyInt(Len(attributes.items)))),
        Entry("number", GetOr(md, PyStr("page_number"), PyInt(1))),
        Entry("size", GetOr(md, PyStr("size"), PyInt(30)))>>))>>)

\* ResourceObject with the whole record as the attributes
ResourceObjectKeepingId(rt, link, idf, el) ==
    LET resource_id == Get(el, idf)
    IN  PyDict(<<
            Entry("type", PyStr(rt)),
            Entry("id", resource_id),
            Entry("attributes", el),
            Entry("links", PyDict(<<
                Entry("self", PyStr(link \o "/" \o Format(resource_id)))>>))>>)

\* the resource object appended for the record el, which has the key idf
ResourceObject(rt, link, idf, el) ==
    LET resource_id == Get(el, idf)
        attrs == Without(el, idf)
    IN  PyDict(<<
            Entry("type", PyStr(rt)),
            Entry("id", resource_id),
            Entry("attributes", attrs),
            Entry("links", PyDict(<<
                Entry("self", PyStr(link \o "/" \o Format(resource_id)))>>))>>)

\* ElementAfter for a loop body that pops the identifier, as the branch for
\* a dict does
ElementAfterPop(el, idf) == Without(el, idf)

\* the record el once the loop body is over: the body reads el[id_field]
\* and el.items() and writes to neither
ElementAfter(el, idf) == el

\* the loop over the records from position i on, data being the resource
\* objects appended so far and els the records as the loop leaves them
RECURSIVE Loop(_, _, _, _, _, _, _)
Loop(rt, link, idf, md, els, i, data) ==
    IF i > Len(els)
    THEN [result |-> Returned(PyDict(<<
                         JsonApi,
                         Entry("data", PyList(data)),
                         Entry("meta", PageMeta(md, PyList(els)))>>)),
          attributes |-> PyList(els)]
    ELSE IF ~Has(els[i], idf)
    THEN [result |-> RaisedKeyError(idf), attributes |-> PyList(els)]
    ELSE Loop(rt, link, idf, md,
              [els EXCEPT ![i] = ElementAfter(els[i], idf)], i + 1,
              Append(data, ResourceObject(rt, link, idf, els[i])))

\* ListBranch leaving out the records without the identifier
ListBranchSkipping(rt, link, idf, attributes, md) ==
    [result |-> Loop(rt, link, idf, md,
                     SelectSeq(attributes.items, LAMBDA el : Has(el, idf)),
                     1, <<>>).result,
     attributes |-> attributes]

ListBranch(rt, link, idf, attributes, md) ==
    Loop(rt, link, idf, md, attributes.items, 1, <<>>)

\* success_response looking id_field up before it looks at the attributes
success_response_eager(rt, link, idf, attributes, md) ==
    LET copy == MetadataCopy(md)
        branch == CASE attributes.t = "dict" -> SingleBranch(rt, link, idf, attributes)
                    [] attributes.t = "list" ->
                        IF idf.t = "none" \/ idf = PyStr("")
                        THEN [result |-> RaisedKeyError(idf), attributes |-> attributes]
                        ELSE Loop(rt, link, idf, copy, attributes.items, 1, <<>>)
                    [] OTHER -> [result |-> Returned(PyDict(<<JsonApi>>)),
                                 attributes |-> attributes]
    IN  [result |-> branch.result,
         attributes |-> branch.attributes,
         metadata |-> MetadataAfter(md)]

\* success_response(resource_type, resource_link, id_field, attributes,
\* metadata): what the call ends in, and the caller's attributes and
\* metadata objects once it is over
success_response(rt, link, idf, attributes, md) ==
    LET copy == MetadataCopy(md)
        branch == CASE attributes.t = "dict" -> SingleBranch(rt, link, idf, attributes)
                    [] attributes.t = "list" -> ListBranch(rt, link, idf, attributes, copy)
                    [] OTHER -> [result |-> Returned(PyDict(<<JsonApi>>)),
                                 attributes |-> attributes]
    IN  [result |-> branch.result,
         attributes |-> branch.attributes,
         metadata |-> MetadataAfter(md)]

----------------------------------------------------------------------------
(* The inputs *)

\* the longest list of records the caller holds
MaxLen == 2

\* the keys of a record, in the order the records at odd positions hold them
KeyOrder == <<"name", "id", "age">>

Reverse(seq) == [j \in 1..Len(seq) |-> seq[Len(seq) + 1 - j]]

\* the key orders of the record at position i: any of the keys, in the order
\* of KeyOrder at odd positions and in the reverse order at even ones
KeyOrders(i) ==
    {SelectSeq(IF i % 2 = 1 THEN KeyOrder ELSE Reverse(KeyOrder),
               LAMBDA key : key \in S) :
        S \in SUBSET {KeyOrder[j] : j \in 1..Len(KeyOrder)}}

\* the value the record at position i holds at key: a string at "id" and
\* "name", an int at "age", different at every position
ValueOf(i, key) == CASE key = "id" -> PyStr(IntToStr(i))
                     [] key = "name" -> PyStr("N" \o IntToStr(i))
                     [] key = "age" -> PyInt(30 + i)

RecordOf(i, ks) == PyDict([j \in 1..Len(ks) |-> Entry(ks[j], ValueOf(i, ks[j]))])

\* the records position i can hold
RecordsAt(i) == {RecordOf(i, ks) : ks \in KeyOrders(i)}

\* the lists of at most MaxLen records, any of them with or without each key
RecordLists ==
    UNION {{rs \in [1..k -> UNION {RecordsAt(i) : i \in 1..k}] :
               \A i \in 1..k : rs[i] \in RecordsAt(i)} :
           k \in 0..MaxLen}

\* the lists of at most MaxLen records that all hold all the keys
FullRecordLists ==
    {[i \in 1..k |-> RecordOf(i, IF i % 2 = 1 THEN KeyOrder ELSE Reverse(KeyOrder))] :
        k \in 0..MaxLen}

IdFields == {PyStr("id"), PyStr("age"), PyStr(""), PyNone}

ResourceLinks == {"/things", "http://host/users"}

ResourceTypes == {"user"}

MetaKeyOrder == <<"total", "page_count", "page_number", "size", "pageCount", "pageNumber">>

MetaValue(key) == CASE key = "total" -> PyInt(100)
                    [] key = "page_count" -> PyInt(5)
                    [] key = "page_number" -> PyInt(2)
                    [] key = "size" -> PyStr("10")
                    [] key = "pageCount" -> PyInt(6)
                    [] key = "pageNumber" -> PyInt(3)

\* the metadata mappings: any of the keys, each with its own value
Metadatas ==
    {PyDict([j \in 1..Len(ks) |-> Entry(ks[j], MetaValue(ks[j]))]) :
        ks \in {SelectSeq(MetaKeyOrder, LAMBDA key : key \in S) :
                   S \in SUBSET {MetaKeyOrder[j] : j \in 1..Len(MetaKeyOrder)}}}

StatusCodes == {0, 7, 42, 200, 404, 500}

Titles == {"Not Found", "Invalid"}

Details == {"no such user", ""}

Sources == {PyNone, PyDict(<<>>),
            PyDict(<<Entry("pointer", PyStr("/data/attributes/email"))>>),
            PyDict(<<Entry("parameter", PyStr("page")), Entry("line", PyInt(3))>>)}

ErrorArgs == [status_code : StatusCodes, title : Titles, detail : Details,
              source : Sources]

NoCall == [op |-> "none", index |-> 0, withMeta |-> FALSE]

----------------------------------------------------------------------------
(* The caller *)

Start ==
    /\ pre = [records |-> records, metadata |-> metadata]
    /\ call = NoCall
    /\ result = NoResult

\* any records, one metadata mapping
Init ==
    /\ records \in RecordLists
    /\ metadata = PyDict(<<Entry("size", MetaValue("size"))>>)
    /\ resource_type \in ResourceTypes
    /\ resource_link \in ResourceLinks
    /\ id_field \in IdFields
    /\ errorArgs = [status_code |-> 404, title |-> "Not Found",
                    detail |-> "no such user", source |-> PyNone]
    /\ Start

\* any metadata mapping, records that all hold their identifier
InitPage ==
    /\ records \in FullRecordLists
    /\ metadata \in Metadatas
    /\ resource_type \in ResourceTypes
    /\ resource_link \in ResourceLinks
    /\ id_field \in IdFields
    /\ errorArgs = [status_code |-> 404, title |-> "Not Found",
                    detail |-> "no such user", source |-> PyNone]
    /\ Start

\* any arguments of error_response
InitError ==
    /\ records = <<>>
    /\ metadata = PyDict(<<>>)
    /\ resource_type \in ResourceTypes
    /\ resource_link = "/things"
    /\ id_field = PyStr("id")
    /\ errorArgs \in ErrorArgs
    /\ Start

\* the metadata argument: the caller's mapping, or None
MetaArg(withMeta) == IF withMeta THEN metadata ELSE PyNone

Snapshot == pre' = [records |-> records, metadata |-> metadata]

\* success_response(resource_type, resource_link, id_field, records[i], ...)
CallSingle(i, withMeta) ==
    LET r == success_response(resource_type, resource_link, id_field,
                              records[i], MetaArg(withMeta))
    IN  /\ records' = [records EXCEPT ![i] = r.attributes]
        /\ metadata' = IF withMeta THEN r.metadata ELSE metadata
        /\ result' = r.result
        /\ call' = [op |-> "single", index |-> i, withMeta |-> withMeta]
        /\ Snapshot
        /\ UNCHANGED <<resource_type, resource_link, id_field, errorArgs>>

\* success_response(resource_type, resource_link, id_field, records, ...)
CallList(withMeta) ==
    LET r == success_response(resource_type, resource_link, id_field,
                              PyList(records), MetaArg(withMeta))
    IN  /\ records' = r.attributes.items
        /\ metadata' = IF withMeta THEN r.metadata ELSE metadata
        /\ result' = r.result
        /\ call' = [op |-> "list", index |-> 0, withMeta |-> withMeta]
        /\ Snapshot
        /\ UNCHANGED <<resource_type, resource_link, id_field, errorArgs>>

\* success_response(resource_type, resource_link, id_field, None, ...)
CallAbsent(withMeta) ==
    LET r == success_response(resource_type, resource_link, id_field,
                              PyNone, MetaArg(withMeta))
    IN  /\ metadata' = IF withMeta THEN r.metadata ELSE metadata
        /\ result' = r.result
        /\ call' = [op |-> "absent", index |-> 0, withMeta |-> withMeta]
        /\ Snapshot
        /\ UNCHANGED <<records, resource_type, resource_link, id_field, errorArgs>>

\* error_response(status_code, title, detail, source)
CallError ==
    /\ result' = error_response(errorArgs.status_code, errorArgs.title,
                                errorArgs.detail, errorArgs.source)
    /\ call' = [op |-> "error", index |-> 0, withMeta |-> FALSE]
    /\ Snapshot
    /\ UNCHANGED <<records, metadata, resource_type, resource_link, id_field,
                   errorArgs>>

Next ==
    \/ \E i \in 1..Len(records), withMeta \in BOOLEAN : CallSingle(i, withMeta)
    \/ \E withMeta \in BOOLEAN : CallList(withMeta)
    \/ \E withMeta \in BOOLEAN : CallAbsent(withMeta)
    \/ CallError

Spec == Init /\ [][Next]_vars

SpecPage == InitPage /\ [][Next]_vars

NextError == CallError

SpecError == InitError /\ [][NextError]_vars

----------------------------------------------------------------------------
(* What the properties speak of *)

\* d[key] for a string key
Field(d, key) == Get(d, PyStr(key))

\* the keys of d, in d's order
KeysOf(d) == [j \in 1..Len(d.kv) |-> d.kv[j].k]

KeySet(d) == {d.kv[j].k : j \in 1..Len(d.kv)}

\* the records the last call was given, as they were when it began
Given == CASE call.op = "single" -> <<pre.records[call.index]>>
           [] call.op = "list" -> pre.records
           [] OTHER -> <<>>

AllHaveId == \A i \in 1..Len(Given) : Has(Given[i], id_field)

\* the position of the first record given that lacks the identifier
FirstMissing == CHOOSE i \in 1..Len(Given) :
                    /\ ~Has(Given[i], id_field)
                    /\ \A j \in 1..(i - 1) : Has(Given[j], id_field)

\* the metadata argument of the last call
Supplied == IF call.withMeta THEN pre.metadata ELSE PyNone

\* the entries of rec before and after the one at the key idf
Others(rec, idf) ==
    LET p == CHOOSE j \in 1..Len(rec.kv) : KeyIs(rec.kv[j].k, idf)
    IN  SubSeq(rec.kv, 1, p - 1) \o SubSeq(rec.kv, p + 1, Len(rec.kv))

\* an identifier as it reads in a link
IdText(v) == IF v.t = "int" THEN IntToStr(v.n) ELSE v.s

NoDocument == result.doc = PyNone /\ result.text = ""

AbsentId == {PyNone, PyStr("")}

----------------------------------------------------------------------------
(* Properties *)

\* C1: a call on a list of records leaves every record of the caller as it
\* was, with its identifier, also when the call raises part-way through
ListCallLeavesRecords ==
    call.op = "list" =>
        /\ records = pre.records
        /\ \A i \in 1..Len(pre.records) :
               Has(pre.records[i], id_field) => Has(records[i], id_field)

\* a call on a list raised at the second record, the first holding its identifier
ListCallRaisedPartWay ==
    /\ call.op = "list"
    /\ result.kind = "KeyError"
    /\ Len(pre.records) >= 2
    /\ Has(pre.records[1], id_field)
    /\ FirstMissing = 2

\* C2: a call on a single mapping leaves the caller's mapping as it was
SingleCallLeavesMapping ==
    call.op = "single" => records = pre.records

\* C3: a call made a second time with the same arguments on the same
\* objects ends as the first did, returning the same string
SecondCallSameOutcome ==
    [][call' = call => result' = result]_vars

\* C4: for a list of n records that all hold the identifier, data is the n
\* resource objects in the order of the records, each with the type, the
\* record's identifier, the record's other entries in their order, and the
\* link followed by "/" and the identifier
ListData ==
    (call.op = "list" /\ AllHaveId) =>
        /\ result.kind = "return"
        /\ LET data == Field(result.doc, "data")
           IN  /\ data.t = "list"
               /\ Len(data.items) = Len(pre.records)
               /\ \A i \in 1..Len(pre.records) :
                      LET obj == data.items[i]
                          rec == pre.records[i]
                      IN  /\ KeysOf(obj) = <<"type", "id", "attributes", "links">>
                          /\ Field(obj, "type") = PyStr(resource_type)
                          /\ Field(obj, "id") = Get(rec, id_field)
                          /\ Field(obj, "attributes") = PyDict(Others(rec, id_field))
                          /\ ~Has(Field(obj, "attributes"), id_field)
                          /\ Field(obj, "links") = PyDict(<<Entry("self",
                                 PyStr(resource_link \o "/"
                                       \o IdText(Get(rec, id_field))))>>)

\* a call on two records with all their keys returned, the identifier an int
ListDataOfTwo ==
    /\ call.op = "list"
    /\ result.kind = "return"
    /\ id_field = PyStr("age")
    /\ resource_link = "/things"
    /\ Len(pre.records) = 2
    /\ \A i \in 1..2 : Len(pre.records[i].kv) = 3
    /\ Field(Field(Field(result.doc, "data").items[2], "links"), "self")
           = PyStr("/things/32")
    /\ KeysOf(Field(Field(result.doc, "data").items[1], "attributes")) = <<"name", "id">>
    /\ KeysOf(Field(Field(result.doc, "data").items[2], "attributes")) = <<"id", "name">>

\* C5: for a single mapping that holds the identifier, data is one resource
\* object with the type, the identifier, the other entries of the mapping
\* and the link as it was given
SingleData ==
    (call.op = "single" /\ AllHaveId) =>
        /\ result.kind = "return"
        /\ LET obj == Field(result.doc, "data")
               rec == pre.records[call.index]
           IN  /\ KeysOf(obj) = <<"type", "id", "attributes", "links">>
               /\ Field(obj, "type") = PyStr(resource_type)
               /\ Field(obj, "id") = Get(rec, id_field)
               /\ Field(obj, "attributes") = PyDict(Others(rec, id_field))
               /\ ~Has(Field(obj, "attributes"), id_field)
               /\ Field(obj, "links") = PyDict(<<Entry("self", PyStr(resource_link))>>)

\* a call on a mapping with all its keys returned
SingleDataOfThree ==
    /\ call.op = "single"
    /\ result.kind = "return"
    /\ id_field = PyStr("id")
    /\ Len(pre.records[call.index].kv) = 3
    /\ Field(Field(result.doc, "data"), "id") = PyStr("1")
    /\ KeysOf(Field(Field(result.doc, "data"), "attributes")) = <<"name", "age">>

\* meta.page of the document of a list, count read at countKey and number
\* at numberKey
PageReadAt(countKey, numberKey) ==
    LET page == Field(Field(result.doc, "meta"), "page")
        Takes(field, key, default) ==
            Field(page, field) = IF Has(Supplied, PyStr(key))
                                 THEN Field(Supplied, key)
                                 ELSE default
    IN  /\ KeySet(Field(result.doc, "meta")) = {"page"}
        /\ Len(page.kv) = 4
        /\ KeySet(page) = {"total", "count", "number", "size"}
        /\ Takes("total", "total", PyNone)
        /\ Takes("count", countKey, PyInt(Len(pre.records)))
        /\ Takes("number", numberKey, PyInt(1))
        /\ Takes("size", "size", PyInt(30))
        /\ metadata = pre.metadata

\* C6 as stated: for a list, meta.page holds total, count, number and size,
\* each the caller's value at total, pageCount, pageNumber and size or else
\* null, the length of the list, 1 and 30; the caller's metadata is as it was
PageFromCamelKeys ==
    (call.op = "list" /\ result.kind = "return") =>
        PageReadAt("pageCount", "pageNumber")

\* C6 as amended: the same with count read at page_count and number at
\* page_number
PageFromSnakeKeys ==
    (call.op = "list" /\ result.kind = "return") =>
        PageReadAt("page_count", "page_number")

\* a call on two records returned, the metadata holding page_number and
\* pageNumber but neither page_count nor size
PageOfTwo ==
    /\ call.op = "list"
    /\ result.kind = "return"
    /\ call.withMeta
    /\ Len(pre.records) = 2
    /\ KeySet(pre.metadata) = {"page_number", "pageNumber"}
    /\ Field(Field(result.doc, "meta"), "page")
           = PyDict(<<Entry("total", PyNone), Entry("count", PyInt(2)),
                      Entry("number", PyInt(2)), Entry("size", PyInt(30))>>)

\* C7 as stated: the document of a single mapping has the members jsonapi,
\* of version "1.1", and data, and no member meta
SingleHasNoMeta ==
    (call.op = "single" /\ AllHaveId) =>
        /\ result.kind = "return"
        /\ Len(result.doc.kv) = 2
        /\ KeySet(result.doc) = {"jsonapi", "data"}
        /\ Field(result.doc, "jsonapi") = PyDict(<<Entry("version", PyStr("1.1"))>>)

\* C7 as amended: the document of a single mapping has the members jsonapi,
\* of version "1.1", data and meta, and meta is empty: it holds no page
\* block, whatever metadata the call was given
SingleHasEmptyMeta ==
    (call.op = "single" /\ AllHaveId) =>
        /\ result.kind = "return"
        /\ Len(result.doc.kv) = 3
        /\ KeySet(result.doc) = {"jsonapi", "data", "meta"}
        /\ Field(result.doc, "jsonapi") = PyDict(<<Entry("version", PyStr("1.1"))>>)
        /\ Field(result.doc, "meta") = PyDict(<<>>)

\* a call on a single mapping returned, given metadata with a page count
SingleWithMetadata ==
    /\ call.op = "single"
    /\ result.kind = "return"
    /\ call.withMeta
    /\ Has(pre.metadata, PyStr("page_count"))
    /\ Has(pre.metadata, PyStr("total"))

\* what the error of the last call carries
Carried == {result.key}

\* C8 as stated: a call given a record without the identifier ends in a
\* MissingIdentifierError and returns no document, and for a list the error
\* names the index of the first such record
MissingIdNamesIndex ==
    (call.op \in {"single", "list"} /\ ~AllHaveId) =>
        /\ result.kind = "MissingIdentifierError"
        /\ NoDocument
        /\ call.op = "list" => PyInt(FirstMissing - 1) \in Carried

\* C8 as amended: a call given a record without the identifier ends in a
\* KeyError that names the missing key, not the index of the record, and
\* returns no document
MissingIdRaisesKeyError ==
    (call.op \in {"single", "list"} /\ ~AllHaveId) =>
        /\ result.kind = "KeyError"
        /\ NoDocument
        /\ Carried = {id_field}

\* a call on a list whose second record is the first without the identifier
MissingIdAtSecond ==
    /\ call.op = "list"
    /\ id_field = PyStr("id")
    /\ Len(pre.records) >= 2
    /\ FirstMissing = 2
    /\ result.kind = "KeyError"

\* C9 as stated: with id_field None or "", a call on a mapping or on a list
\* of any length ends in an InvalidArgumentError and returns no document,
\* and a call without attributes returns the empty document
AbsentIdIsInvalid ==
    id_field \in AbsentId =>
        /\ call.op \in {"single", "list"} =>
               result.kind = "InvalidArgumentError" /\ NoDocument
        /\ call.op = "absent" =>
               result.kind = "return" /\ result.doc = PyDict(<<JsonApi>>)

\* C9 as amended: with id_field None or "", a call on a mapping or on a
\* list with a record that lacks that key ends in a KeyError and returns no
\* document, a call on the empty list returns the document of a list with
\* no data, and a call without attributes returns the empty document
AbsentIdIsLookedUp ==
    id_field \in AbsentId =>
        /\ (call.op \in {"single", "list"} /\ ~AllHaveId) =>
               /\ result.kind = "KeyError"
               /\ Carried = {id_field}
               /\ NoDocument
        /\ (call.op = "list" /\ Len(pre.records) = 0) =>
               /\ result.kind = "return"
               /\ KeySet(result.doc) = {"jsonapi", "data", "meta"}
               /\ Field(result.doc, "data") = PyList(<<>>)
               /\ Has(Field(result.doc, "meta"), PyStr("page"))
        /\ call.op = "absent" =>
               result.kind = "return" /\ result.doc = PyDict(<<JsonApi>>)

\* a call on the empty list with id_field None returned
AbsentIdEmptyList ==
    /\ id_field = PyNone
    /\ call.op = "list"
    /\ Len(pre.records) = 0
    /\ result.kind = "return"

\* C10: the document of error_response has the one member errors, a list
\* of one object with the status code as a string, the title, the detail,
\* and the source if and only if the source given is a mapping with entries
ErrorDocument ==
    call.op = "error" =>
        /\ result.kind = "return"
        /\ KeysOf(result.doc) = <<"errors">>
        /\ LET errors == Field(result.doc, "errors")
               given == errorArgs.source
               withSource == given.t = "dict" /\ Len(given.kv) >= 1
           IN  /\ errors.t = "list"
               /\ Len(errors.items) = 1
               /\ LET err == errors.items[1]
                  IN  /\ err.t = "dict"
                      /\ Field(err, "status") = PyStr(IntToStr(errorArgs.status_code))
                      /\ Field(err, "title") = PyStr(errorArgs.title)
                      /\ Field(err, "detail") = PyStr(errorArgs.detail)
                      /\ Has(err, PyStr("source")) <=> withSource
                      /\ withSource => Field(err, "source") = given
                      /\ KeySet(err) \subseteq {"status", "title", "detail", "source"}
                      /\ Len(err.kv) = IF withSource THEN 4 ELSE 3

\* error_response(404, "Not Found", "no such user", {}) returned
ErrorOfEmptySource ==
    /\ call.op = "error"
    /\ errorArgs.source = PyDict(<<>>)
    /\ result.text = "{\"errors\": [{\"status\": \"404\", \"title\": \"Not Found\", \"detail\": \"no such user\"}]}"

====
